---------------------------- MODULE Spec2Model ----------------------------
(***************************************************************************)
(* Model of lullaby/util/mesh.h: CalculateTesselatedQuadVertices.          *)
(*                                                                         *)
(* The function is modelled statement by statement as a state machine: one *)
(* action per validation/allocation step and one action per vertex write.  *)
(* `float` is modelled as IEEE-754 binary32 with round-to-nearest-even:    *)
(* a value is a record [cls, neg, man, ex] standing for                    *)
(* (-1)^neg * man * 2^ex with man = 0 or 2^23 <= man < 2^24, or an         *)
(* infinity, or NaN.  The exponent is not range-limited: no value the      *)
(* model reaches is near the binary32 overflow or underflow thresholds.    *)
(* Every operation rounds once (no fused multiply-add), and sinf / cosf    *)
(* are the C library's values at the fan angles.  LOG(DFATAL) logs and     *)
(* lets the function return, as in a release build.                        *)
(*                                                                         *)
(* Definitions named X_Suffix next to a definition X are faulty variants   *)
(* of X, used to show that a property depends on X.                        *)
(***************************************************************************)
EXTENDS Integers, Sequences, FiniteSets, TLC

(***************************************************************************)
(* binary32 arithmetic                                                     *)
(***************************************************************************)
RECURSIVE Pow2Rec(_)
Pow2Rec(n) == IF n <= 0 THEN 1 ELSE 2 * Pow2Rec(n - 1)

Pow2Table == [n \in 0 .. 30 |-> Pow2Rec(n)]
Pow2(n) == Pow2Table[n]

\* The number of bits of m, 0 <= m < 2^31.
RECURSIVE BitLenFrom(_, _)
BitLenFrom(m, n) == IF m < Pow2Table[n] THEN n ELSE BitLenFrom(m, n + 1)
BitLen(m) == IF m >= Pow2Table[30] THEN 31
             ELSE IF m >= Pow2Table[23] THEN BitLenFrom(m, 24)
             ELSE BitLenFrom(m, 0)

MantBits == 24

FNaN == [cls |-> "nan", neg |-> FALSE, man |-> 0, ex |-> 0]
FInf(neg) == [cls |-> "inf", neg |-> neg, man |-> 0, ex |-> 0]
FZero(neg) == [cls |-> "num", neg |-> neg, man |-> 0, ex |-> 0]
FNum(neg, man, ex) == [cls |-> "num", neg |-> neg, man |-> man, ex |-> ex]

IsNaN(a) == a.cls = "nan"
IsInf(a) == a.cls = "inf"
IsZero(a) == a.cls = "num" /\ a.man = 0

\* The binary32 nearest to (m + s) * 2^ex, where 0 <= m < 2^31 and s is a
\* sticky fraction in (0,1) when sticky, 0 otherwise; ties go to even.
RoundPack(neg, m, ex, sticky) ==
  IF m = 0 THEN FZero(neg)
  ELSE LET len == BitLen(m) IN
    IF len <= MantBits
    THEN FNum(neg, m * Pow2(MantBits - len), ex - (MantBits - len))
    ELSE LET k    == len - MantBits
             q    == m \div Pow2(k)
             rem  == m % Pow2(k)
             half == Pow2(k - 1)
             up   == \/ rem > half
                     \/ rem = half /\ sticky
                     \/ rem = half /\ ~sticky /\ q % 2 = 1
             q2   == IF up THEN q + 1 ELSE q
         IN IF q2 = Pow2(MantBits)
            THEN FNum(neg, Pow2(MantBits - 1), ex + k + 1)
            ELSE FNum(neg, q2, ex + k)

\* static_cast<float>(n) for a small int n.
FromInt(n) == IF n < 0 THEN RoundPack(TRUE, -n, 0, FALSE)
              ELSE RoundPack(FALSE, n, 0, FALSE)

FNeg(a) == IF IsNaN(a) THEN FNaN ELSE [a EXCEPT !.neg = ~a.neg]
FAbs(a) == IF IsNaN(a) THEN FNaN ELSE [a EXCEPT !.neg = FALSE]

\* |a| < |b| for finite a, b.
MagLess(a, b) ==
  IF a.man = 0 THEN b.man # 0
  ELSE IF b.man = 0 THEN FALSE
  ELSE IF a.ex # b.ex THEN a.ex < b.ex
  ELSE a.man < b.man

\* a < b as C's operator< on float: false when either is NaN, -0 = +0.
FLess(a, b) ==
  IF IsNaN(a) \/ IsNaN(b) THEN FALSE
  ELSE IF IsInf(a) THEN a.neg /\ ~(IsInf(b) /\ b.neg)
  ELSE IF IsInf(b) THEN ~b.neg
  ELSE IF IsZero(a) /\ IsZero(b) THEN FALSE
  ELSE IF a.neg # b.neg THEN a.neg
  ELSE IF a.neg THEN MagLess(b, a) ELSE MagLess(a, b)

\* a == b as C's operator== on float.
FEq(a, b) ==
  IF IsNaN(a) \/ IsNaN(b) THEN FALSE
  ELSE IF IsZero(a) /\ IsZero(b) THEN TRUE
  ELSE a = b

FLeq(a, b) == FLess(a, b) \/ FEq(a, b)

\* std::min(a, b) and std::max(a, b) as <algorithm> defines them.
FMin(a, b) == IF FLess(b, a) THEN b ELSE a
FMax(a, b) == IF FLess(a, b) THEN b ELSE a

\* Sum of two finite values of magnitude order |a| >= |b| (exponent-aligned
\* with three guard bits and a sticky bit).
AddOrdered(a, b) ==
  LET d  == a.ex - b.ex
      A  == a.man * 8
      B8 == b.man * 8
      B  == IF d > 27 THEN 0 ELSE B8 \div Pow2(d)
      st == IF d > 27 THEN TRUE ELSE (B8 % Pow2(d)) # 0
  IN IF a.neg = b.neg
     THEN RoundPack(a.neg, A + B, a.ex - 3, st)
     ELSE IF st THEN RoundPack(a.neg, A - B - 1, a.ex - 3, TRUE)
     ELSE IF A = B THEN FZero(FALSE)
     ELSE RoundPack(a.neg, A - B, a.ex - 3, FALSE)

FAdd(a, b) ==
  IF IsNaN(a) \/ IsNaN(b) THEN FNaN
  ELSE IF IsInf(a) THEN (IF IsInf(b) /\ a.neg # b.neg THEN FNaN ELSE a)
  ELSE IF IsInf(b) THEN b
  ELSE IF IsZero(a) /\ IsZero(b) THEN FZero(a.neg /\ b.neg)
  ELSE IF IsZero(a) THEN b
  ELSE IF IsZero(b) THEN a
  ELSE IF MagLess(a, b) THEN AddOrdered(b, a) ELSE AddOrdered(a, b)

FSub(a, b) == FAdd(a, FNeg(b))

FMul(a, b) ==
  IF IsNaN(a) \/ IsNaN(b) THEN FNaN
  ELSE LET neg == (a.neg # b.neg) IN
    IF IsInf(a) \/ IsInf(b)
    THEN (IF IsZero(a) \/ IsZero(b) THEN FNaN ELSE FInf(neg))
    ELSE IF IsZero(a) \/ IsZero(b) THEN FZero(neg)
    ELSE LET ah  == a.man \div 4096
             al  == a.man % 4096
             bh  == b.man \div 4096
             bl  == b.man % 4096
             mid == ah * bl + al * bh
             los == al * bl + (mid % 4096) * 4096
             lo  == los % 16777216
             hi  == ah * bh + mid \div 4096 + los \div 16777216
         IN RoundPack(neg, hi * 64 + lo \div 262144,
                      a.ex + b.ex + 18, (lo % 262144) # 0)

\* floor(r * 2^(6n) / d) and the remainder, six quotient bits at a time.
RECURSIVE LongDiv(_, _, _, _)
LongDiv(q, r, d, n) ==
  IF n = 0 THEN <<q, r>>
  ELSE LongDiv(q * 64 + (r * 64) \div d, (r * 64) % d, d, n - 1)

FDiv(a, b) ==
  IF IsNaN(a) \/ IsNaN(b) THEN FNaN
  ELSE LET neg == (a.neg # b.neg) IN
    IF IsInf(a) THEN (IF IsInf(b) THEN FNaN ELSE FInf(neg))
    ELSE IF IsInf(b) THEN FZero(neg)
    ELSE IF IsZero(b) THEN (IF IsZero(a) THEN FNaN ELSE FInf(neg))
    ELSE IF IsZero(a) THEN FZero(neg)
    ELSE LET qr == LongDiv(a.man \div b.man, a.man % b.man, b.man, 5)
         IN RoundPack(neg, qr[1], a.ex - b.ex - 30, qr[2] # 0)

\* sinf and cosf of the C library at the fan angles
\* theta = (float(i + 1) / float(corner_verts)) * (float(M_PI) / 2.0f);
\* the table holds every angle that corner_verts <= 4 produces.
HalfPi == FNum(FALSE, 13176795, -23)

SinF(theta) ==
  CASE theta = FNum(FALSE, 13176795, -23) -> FNum(FALSE, 8388608, -23)
    [] theta = FNum(FALSE, 13176795, -24) -> FNum(FALSE, 11863283, -24)
    [] theta = FNum(FALSE, 8784530, -24)  -> FNum(FALSE, 8388608, -24)
    [] theta = FNum(FALSE, 8784530, -23)  -> FNum(FALSE, 14529496, -24)
    [] theta = FNum(FALSE, 13176795, -25) -> FNum(FALSE, 12840726, -25)
    [] theta = FNum(FALSE, 9882596, -23)  -> FNum(FALSE, 15500126, -24)
    [] OTHER -> FNaN

CosF(theta) ==
  CASE theta = FNum(FALSE, 13176795, -23) -> FNum(TRUE, 12303662, -48)
    [] theta = FNum(FALSE, 13176795, -24) -> FNum(FALSE, 11863283, -24)
    [] theta = FNum(FALSE, 8784530, -24)  -> FNum(FALSE, 14529495, -24)
    [] theta = FNum(FALSE, 8784530, -23)  -> FNum(FALSE, 16777215, -25)
    [] theta = FNum(FALSE, 13176795, -25) -> FNum(FALSE, 15500126, -24)
    [] theta = FNum(FALSE, 9882596, -23)  -> FNum(FALSE, 12840725, -25)
    [] OTHER -> FNaN

F0 == FZero(FALSE)
F1 == FromInt(1)
F2 == FromInt(2)

(***************************************************************************)
(* CornerMask                                                              *)
(***************************************************************************)
kNone == 0
kTopRight == 1
kBottomRight == 2
kBottomLeft == 4
kTopLeft == 8

\* operator&(CornerMask, CornerMask), for a single-corner b.
MaskAnd(a, b) == IF (a \div b) % 2 = 1 THEN b ELSE kNone

\* operator|(CornerMask, CornerMask), for a single-corner b.
MaskOr(a, b) == IF (a \div b) % 2 = 1 THEN a ELSE a + b

kAll == MaskOr(MaskOr(MaskOr(kTopRight, kBottomRight), kBottomLeft), kTopLeft)

Corners == {kTopRight, kBottomRight, kBottomLeft, kTopLeft}

(***************************************************************************)
(* Bounds and inputs                                                       *)
(***************************************************************************)
\* num_verts_x, num_verts_y range over 1 .. MaxNumVerts and corner_verts over
\* -1 .. MaxCornerVerts.
MaxNumVerts == 4
MaxCornerVerts == 2

\* size_x, size_y: -1, 1, 3
Sizes == {FromInt(-1), F1, FromInt(3)}
\* corner_radius: 0, 0.3f, 2 (2 exceeds every size / 2 and is clamped)
Radii == {F0, FNum(FALSE, 10066330, -25), F2}
Masks == kNone .. kAll
\* corner_mask of a first call: no corner, or the default argument
FirstMasks == {kNone, kAll}

(***************************************************************************)
(* State: the arguments and locals of CalculateTesselatedQuadVertices      *)
(***************************************************************************)
VARIABLES
  size_x, size_y, num_verts_x, num_verts_y, corner_radius, corner_verts,
  corner_mask,      \* the arguments (corner_radius is reassigned at line 77)
  pc,               \* position in the function body
  vertices,         \* std::vector<Vertex> vertices(num_verts), 1-based here
  index,            \* size_t index
  x, y, i,          \* loop counters
  returned,         \* the vector handed to the caller
  trace,            \* trace[k]: the statements that wrote slot k, in order
  oob,              \* a write at index >= num_verts happened
  dcheck_failed,    \* DCHECK_EQ(num_verts, index) failed
  prev,             \* the previous call: its corner_mask, result and trace
  caller_radius,    \* the corner_radius the caller passes
  half_size_x, half_size_y, interior_size_x, interior_size_y,
  half_interior_size_x, half_interior_size_y, u_texture_inset,
  u_texture_range, v_texture_inset, v_texture_range,
  num_interior_verts_x, num_interior_verts_y, num_verts
                    \* the const locals of lines 126-150

args == <<size_x, size_y, num_verts_x, num_verts_y, corner_verts>>
locals == <<half_size_x, half_size_y, interior_size_x, interior_size_y,
            half_interior_size_x, half_interior_size_y, u_texture_inset,
            u_texture_range, v_texture_inset, v_texture_range,
            num_interior_verts_x, num_interior_verts_y, num_verts>>
vars == <<size_x, size_y, num_verts_x, num_verts_y, corner_radius,
          corner_verts, corner_mask, pc, vertices, index, x, y, i, returned,
          trace, oob, dcheck_failed, prev, caller_radius, locals>>

\* A value-initialised Vertex and the trace SetPosition / SetUv0 make.
DefaultVertex == [pos |-> <<F0, F0, F0>>, uv |-> <<F0, F0>>]
MkVertex(px, py, pz, u, v) == [pos |-> <<px, py, pz>>, uv |-> <<u, v>>]

\* Lines 126-150: the values the const locals are initialised with.
HalfSize(size) == FDiv(size, F2)
InteriorSize(size) == FSub(size, FMul(F2, corner_radius))
HalfInteriorSize(size) == FDiv(InteriorSize(size), F2)
TextureInset(size) == FDiv(corner_radius, size)
TextureRange(size) == FSub(F1, FMul(F2, TextureInset(size)))
NumInteriorVerts(n) == IF corner_verts > 0 THEN n - 2 ELSE n
\* Faulty variant: the tab vertices are left out of the count.
NumCornerVerts_NoTabs == IF corner_verts > 0 THEN 4 * corner_verts ELSE 0
NumCornerVerts ==
  IF corner_verts > 0
  THEN (4 * corner_verts) + (2 * NumInteriorVerts(num_verts_x))
         + (2 * NumInteriorVerts(num_verts_y))
  ELSE 0
\* Faulty variant: the corner vertices are left out of the allocation.
NumVerts_NoCorners ==
  NumInteriorVerts(num_verts_x) * NumInteriorVerts(num_verts_y)
NumVerts ==
  (NumInteriorVerts(num_verts_x) * NumInteriorVerts(num_verts_y))
    + NumCornerVerts
z == F0

\* Lines 158-160, 172-177: fractions, positions and texture coordinates.
y_fraction(yy) == FDiv(FromInt(yy), FromInt(num_interior_verts_y - 1))
y_val(yy) == FSub(FMul(y_fraction(yy), interior_size_y), half_interior_size_y)
v_val(yy) ==
  FAdd(v_texture_inset, FMul(FSub(F1, y_fraction(yy)), v_texture_range))
x_fraction(xx) == FDiv(FromInt(xx), FromInt(num_interior_verts_x - 1))
x_val(xx) == FSub(FMul(x_fraction(xx), interior_size_x), half_interior_size_x)
u_val(xx) == FAdd(u_texture_inset, FMul(x_fraction(xx), u_texture_range))

LeftTabVertex(yy) == MkVertex(FNeg(half_size_x), y_val(yy), z, F0, v_val(yy))
LowerTabVertex(xx) == MkVertex(x_val(xx), FNeg(half_size_y), z, u_val(xx), F1)
InteriorVertex(xx, yy) ==
  MkVertex(x_val(xx), y_val(yy), z, u_val(xx), v_val(yy))
UpperTabVertex(xx) == MkVertex(x_val(xx), half_size_y, z, u_val(xx), F0)
RightTabVertex(yy) == MkVertex(half_size_x, y_val(yy), F0, F1, v_val(yy))

\* Lines 219-229: corner anchors.
lower_left_xy == <<FNeg(half_interior_size_x), FNeg(half_interior_size_y)>>
upper_left_xy == <<FNeg(half_interior_size_x), half_interior_size_y>>
lower_right_xy == <<half_interior_size_x, FNeg(half_interior_size_y)>>
upper_right_xy == <<half_interior_size_x, half_interior_size_y>>
u_texture_far_inset == FSub(F1, u_texture_inset)
v_texture_far_inset == FSub(F1, v_texture_inset)
lower_left_uv == <<u_texture_inset, v_texture_far_inset>>
upper_left_uv == <<u_texture_inset, v_texture_inset>>
lower_right_uv == <<u_texture_far_inset, v_texture_far_inset>>
upper_right_uv == <<u_texture_far_inset, v_texture_inset>>
uv_scale == <<FDiv(F1, size_x), FDiv(FNeg(F1), size_y)>>

\* mathfu::vec2 operator+, operator* (component-wise) and scaling.
Vec2Add(a, b) == <<FAdd(a[1], b[1]), FAdd(a[2], b[2])>>
Vec2Mul(a, b) == <<FMul(a[1], b[1]), FMul(a[2], b[2])>>
Vec2Scale(a, s) == <<FMul(a[1], s), FMul(a[2], s)>>

\* Lines 231-236.
unround_corner(offset) ==
  LET absx  == FAbs(offset[1])
      absy  == FAbs(offset[2])
      scale == FDiv(corner_radius, FMax(absx, absy))
  IN Vec2Scale(offset, scale)

\* Lines 239-243.
theta(ii) == FMul(FDiv(FromInt(ii + 1), FromInt(corner_verts)), HalfPi)
r_sin_theta(ii) == FMul(corner_radius, SinF(theta(ii)))
r_cos_theta(ii) == FMul(corner_radius, CosF(theta(ii)))

\* The offset of a fan vertex as the code stores it: unrounded when the
\* corner's bit is not in corner_mask.
MaskedOffset(offset, corner) ==
  IF MaskAnd(corner_mask, corner) = kNone THEN unround_corner(offset)
  ELSE offset

ll_offset(ii) ==
  MaskedOffset(<<FNeg(r_sin_theta(ii)), FNeg(r_cos_theta(ii))>>, kBottomLeft)
\* Faulty variant: the upper left corner tests the lower left corner's bit.
ul_offset_WrongBit(ii) ==
  MaskedOffset(<<FNeg(r_cos_theta(ii)), r_sin_theta(ii)>>, kBottomLeft)
ul_offset(ii) ==
  MaskedOffset(<<FNeg(r_cos_theta(ii)), r_sin_theta(ii)>>, kTopLeft)
\* Faulty variant: sine and cosine are exchanged in the lower right offset.
lr_offset_Swapped(ii) ==
  MaskedOffset(<<r_sin_theta(ii), FNeg(r_cos_theta(ii))>>, kBottomRight)
lr_offset(ii) ==
  MaskedOffset(<<r_cos_theta(ii), FNeg(r_sin_theta(ii))>>, kBottomRight)
ur_offset(ii) ==
  MaskedOffset(<<r_sin_theta(ii), r_cos_theta(ii)>>, kTopRight)

FanVertex(anchor_xy, anchor_uv, offset) ==
  LET xy == Vec2Add(anchor_xy, offset)
      uv == Vec2Add(anchor_uv, Vec2Mul(offset, uv_scale))
  IN MkVertex(xy[1], xy[2], z, uv[1], uv[2])

(***************************************************************************)
(* The function body, one action per step                                  *)
(***************************************************************************)
NoCall == [called |-> FALSE, mask |-> kNone, result |-> <<>>, order |-> <<>>]

Enter(radius, mask) ==
  /\ corner_radius = radius
  /\ corner_mask = mask
  /\ pc = "entry"
  /\ vertices = <<>>
  /\ index = 0
  /\ x = 0 /\ y = 0 /\ i = 0
  /\ returned = <<>>
  /\ trace = <<>>
  /\ oob = FALSE
  /\ dcheck_failed = FALSE
  /\ half_size_x = F0 /\ half_size_y = F0
  /\ interior_size_x = F0 /\ interior_size_y = F0
  /\ half_interior_size_x = F0 /\ half_interior_size_y = F0
  /\ u_texture_inset = F0 /\ u_texture_range = F0
  /\ v_texture_inset = F0 /\ v_texture_range = F0
  /\ num_interior_verts_x = 0 /\ num_interior_verts_y = 0 /\ num_verts = 0

Init ==
  /\ size_x \in Sizes
  /\ size_y \in Sizes
  /\ num_verts_x \in 1 .. MaxNumVerts
  /\ num_verts_y \in 1 .. MaxNumVerts
  /\ corner_verts \in -1 .. MaxCornerVerts
  /\ caller_radius \in Radii
  /\ prev = NoCall
  /\ \E mask \in FirstMasks : Enter(caller_radius, mask)

\* vertices[index] = v; ++index.  (vertices is 1-based in the model.)
\* tag names the statement that writes: <<kind, column or fan step, row>>.
WriteVertex(v, tag) ==
  /\ IF index < Len(vertices)
     THEN /\ vertices' = [vertices EXCEPT ![index + 1] = v]
          /\ trace' = [trace EXCEPT ![index + 1] = Append(@, tag)]
          /\ oob' = oob
     ELSE /\ UNCHANGED <<vertices, trace>>
          /\ oob' = TRUE
  /\ index' = index + 1

ReturnEmpty ==
  /\ returned' = <<>>
  /\ pc' = "done"
  /\ UNCHANGED <<vertices, index, x, y, i, trace, oob, dcheck_failed>>

\* The conditions of lines 73, 82 and 87.
SizeRejected == FLess(size_x, F0) \/ FLess(size_y, F0)
\* Faulty variants: the tab check joins its tests with "and"; it compares with 3.
TabsRejected_And == num_verts_x < 4 /\ num_verts_y < 4
TabsRejected_Three == num_verts_x < 3 \/ num_verts_y < 3
TabsRejected == num_verts_x < 4 \/ num_verts_y < 4
GridRejected == num_verts_x < 2 \/ num_verts_y < 2

\* Lines 73-76.
RejectSize ==
  /\ pc = "entry"
  /\ SizeRejected
  /\ ReturnEmpty
  /\ UNCHANGED <<args, corner_radius, corner_mask, prev, caller_radius, locals>>

\* Line 77.
ClampRadius ==
  /\ pc = "entry"
  /\ ~SizeRejected
  /\ corner_radius' = FMin(corner_radius, FDiv(FMin(size_x, size_y), F2))
  /\ pc' = "validate"
  /\ UNCHANGED <<args, corner_mask, vertices, index, x, y, i, returned,
                 trace, oob, dcheck_failed, prev, caller_radius, locals>>

\* Lines 78-85.
RejectTabs ==
  /\ pc = "validate"
  /\ corner_verts > 0
  /\ TabsRejected
  /\ ReturnEmpty
  /\ UNCHANGED <<args, corner_radius, corner_mask, prev, caller_radius, locals>>

\* Lines 86-90.
RejectGrid ==
  /\ pc = "validate"
  /\ ~(corner_verts > 0) /\ corner_verts = 0
  /\ GridRejected
  /\ ReturnEmpty
  /\ UNCHANGED <<args, corner_radius, corner_mask, prev, caller_radius, locals>>

\* Lines 91-94.
RejectCornerVerts ==
  /\ pc = "validate"
  /\ ~(corner_verts > 0) /\ ~(corner_verts = 0)
  /\ ReturnEmpty
  /\ UNCHANGED <<args, corner_radius, corner_mask, prev, caller_radius, locals>>

\* Lines 78-94 fall through to line 126.
Validated ==
  IF corner_verts > 0 THEN ~TabsRejected
  ELSE IF corner_verts = 0 THEN ~GridRejected
  ELSE FALSE

\* Lines 126-154: the locals, std::vector<Vertex> vertices(num_verts), index.
Allocate ==
  /\ pc = "validate"
  /\ Validated
  /\ half_size_x' = HalfSize(size_x)
  /\ half_size_y' = HalfSize(size_y)
  /\ interior_size_x' = InteriorSize(size_x)
  /\ interior_size_y' = InteriorSize(size_y)
  /\ half_interior_size_x' = HalfInteriorSize(size_x)
  /\ half_interior_size_y' = HalfInteriorSize(size_y)
  /\ u_texture_inset' = TextureInset(size_x)
  /\ u_texture_range' = TextureRange(size_x)
  /\ v_texture_inset' = TextureInset(size_y)
  /\ v_texture_range' = TextureRange(size_y)
  /\ num_interior_verts_x' = NumInteriorVerts(num_verts_x)
  /\ num_interior_verts_y' = NumInteriorVerts(num_verts_y)
  /\ num_verts' = NumVerts
  /\ vertices' = [k \in 1 .. NumVerts |-> DefaultVertex]
  /\ trace' = [k \in 1 .. NumVerts |-> <<>>]
  /\ index' = 0
  /\ pc' = IF corner_verts > 0 THEN "left_tab" ELSE "columns"
  /\ x' = 0 /\ y' = 0
  /\ UNCHANGED <<args, corner_radius, corner_mask, i, returned, oob,
                 dcheck_failed, prev, caller_radius>>

\* Lines 157-165, one iteration.
LeftTab ==
  /\ pc = "left_tab"
  /\ y < num_interior_verts_y
  /\ WriteVertex(LeftTabVertex(y), <<"left_tab", 0, y>>)
  /\ y' = y + 1
  /\ UNCHANGED <<args, corner_radius, corner_mask, pc, x, i, returned,
                 dcheck_failed, prev, caller_radius, locals>>

LeftTabDone ==
  /\ pc = "left_tab"
  /\ ~(y < num_interior_verts_y)
  /\ pc' = "columns"
  /\ x' = 0 /\ y' = 0
  /\ UNCHANGED <<args, corner_radius, corner_mask, vertices, index, i,
                 returned, trace, oob, dcheck_failed, prev, caller_radius, locals>>

\* Lines 170-184 with corner_verts > 0: the lower tab vertex of column x.
ColumnLowerTab ==
  /\ pc = "columns"
  /\ x < num_interior_verts_x
  /\ corner_verts > 0
  /\ WriteVertex(LowerTabVertex(x), <<"lower_tab", x, 0>>)
  /\ pc' = "interior"
  /\ y' = 0
  /\ UNCHANGED <<args, corner_radius, corner_mask, x, i, returned,
                 dcheck_failed, prev, caller_radius, locals>>

\* Lines 170-184 with corner_verts == 0.
ColumnBegin ==
  /\ pc = "columns"
  /\ x < num_interior_verts_x
  /\ ~(corner_verts > 0)
  /\ pc' = "interior"
  /\ y' = 0
  /\ UNCHANGED <<args, corner_radius, corner_mask, vertices, index, x, i,
                 returned, trace, oob, dcheck_failed, prev, caller_radius, locals>>

\* Faulty variant: the interior column is filled with y descending.
Interior_Descending ==
  /\ pc = "interior"
  /\ y < num_interior_verts_y
  /\ WriteVertex(InteriorVertex(x, num_interior_verts_y - 1 - y),
                 <<"interior", x, num_interior_verts_y - 1 - y>>)
  /\ y' = y + 1
  /\ UNCHANGED <<args, corner_radius, corner_mask, pc, x, i, returned,
                 dcheck_failed, prev, caller_radius, locals>>

\* Lines 186-196, one iteration.
Interior ==
  /\ pc = "interior"
  /\ y < num_interior_verts_y
  /\ WriteVertex(InteriorVertex(x, y), <<"interior", x, y>>)
  /\ y' = y + 1
  /\ UNCHANGED <<args, corner_radius, corner_mask, pc, x, i, returned,
                 dcheck_failed, prev, caller_radius, locals>>

\* Lines 198-204 with corner_verts > 0: the upper tab vertex, then ++x.
ColumnUpperTab ==
  /\ pc = "interior"
  /\ ~(y < num_interior_verts_y)
  /\ corner_verts > 0
  /\ WriteVertex(UpperTabVertex(x), <<"upper_tab", x, 0>>)
  /\ x' = x + 1
  /\ y' = 0
  /\ pc' = "columns"
  /\ UNCHANGED <<args, corner_radius, corner_mask, i, returned,
                 dcheck_failed, prev, caller_radius, locals>>

\* Lines 198-204 with corner_verts == 0: ++x.
ColumnEnd ==
  /\ pc = "interior"
  /\ ~(y < num_interior_verts_y)
  /\ ~(corner_verts > 0)
  /\ x' = x + 1
  /\ y' = 0
  /\ pc' = "columns"
  /\ UNCHANGED <<args, corner_radius, corner_mask, vertices, index, i,
                 returned, trace, oob, dcheck_failed, prev, caller_radius, locals>>

\* Line 170 loop exit and line 206.
ColumnsDone ==
  /\ pc = "columns"
  /\ ~(x < num_interior_verts_x)
  /\ pc' = IF corner_verts > 0 THEN "right_tab" ELSE "check"
  /\ x' = 0 /\ y' = 0
  /\ UNCHANGED <<args, corner_radius, corner_mask, vertices, index, i,
                 returned, trace, oob, dcheck_failed, prev, caller_radius, locals>>

\* Lines 208-216, one iteration.
RightTab ==
  /\ pc = "right_tab"
  /\ y < num_interior_verts_y
  /\ WriteVertex(RightTabVertex(y), <<"right_tab", 0, y>>)
  /\ y' = y + 1
  /\ UNCHANGED <<args, corner_radius, corner_mask, pc, x, i, returned,
                 dcheck_failed, prev, caller_radius, locals>>

RightTabDone ==
  /\ pc = "right_tab"
  /\ ~(y < num_interior_verts_y)
  /\ pc' = "fan"
  /\ y' = 0 /\ i' = 0
  /\ UNCHANGED <<args, corner_radius, corner_mask, vertices, index, x,
                 returned, trace, oob, dcheck_failed, prev, caller_radius, locals>>

FanStep(from, to, v, corner) ==
  /\ pc = from
  /\ WriteVertex(v, <<"fan", i, corner>>)
  /\ pc' = to
  /\ UNCHANGED <<args, corner_radius, corner_mask, x, y, returned,
                 dcheck_failed, prev, caller_radius, locals>>

\* Lines 238-253: the lower left fan vertex of step i.
FanLowerLeft ==
  /\ i < corner_verts
  /\ FanStep("fan", "fan_ul",
             FanVertex(lower_left_xy, lower_left_uv, ll_offset(i)),
             kBottomLeft)
  /\ i' = i

\* Lines 254-263.
FanUpperLeft ==
  /\ FanStep("fan_ul", "fan_lr",
             FanVertex(upper_left_xy, upper_left_uv, ul_offset(i)),
             kTopLeft)
  /\ i' = i

\* Lines 264-273.
FanLowerRight ==
  /\ FanStep("fan_lr", "fan_ur",
             FanVertex(lower_right_xy, lower_right_uv, lr_offset(i)),
             kBottomRight)
  /\ i' = i

\* Lines 274-284: the upper right fan vertex, then ++i.
FanUpperRight ==
  /\ FanStep("fan_ur", "fan",
             FanVertex(upper_right_xy, upper_right_uv, ur_offset(i)),
             kTopRight)
  /\ i' = i + 1

FanDone ==
  /\ pc = "fan"
  /\ ~(i < corner_verts)
  /\ pc' = "check"
  /\ i' = 0
  /\ UNCHANGED <<args, corner_radius, corner_mask, vertices, index, x, y,
                 returned, trace, oob, dcheck_failed, prev, caller_radius, locals>>

\* Lines 287-289.
Return ==
  /\ pc = "check"
  /\ dcheck_failed' = (num_verts # index)
  /\ returned' = vertices
  /\ pc' = "done"
  /\ UNCHANGED <<args, corner_radius, corner_mask, vertices, index, x, y, i,
                 trace, oob, prev, caller_radius, locals>>

\* After a successful call the caller invokes the function once more with
\* the same arguments except for corner_mask.  A first call has no corner or
\* every corner in its mask, so each corner's bit is compared both ways.
Recall ==
  /\ pc = "done"
  /\ ~prev.called
  /\ Len(returned) > 0
  /\ prev' = [called |-> TRUE, mask |-> corner_mask, result |-> returned,
               order |-> trace]
  /\ corner_mask' \in Masks \ {corner_mask}
  /\ corner_radius' = caller_radius
  /\ pc' = "entry"
  /\ vertices' = <<>>
  /\ index' = 0
  /\ x' = 0 /\ y' = 0 /\ i' = 0
  /\ returned' = <<>>
  /\ trace' = <<>>
  /\ oob' = FALSE
  /\ dcheck_failed' = FALSE
  /\ half_size_x' = F0 /\ half_size_y' = F0
  /\ interior_size_x' = F0 /\ interior_size_y' = F0
  /\ half_interior_size_x' = F0 /\ half_interior_size_y' = F0
  /\ u_texture_inset' = F0 /\ u_texture_range' = F0
  /\ v_texture_inset' = F0 /\ v_texture_range' = F0
  /\ num_interior_verts_x' = 0 /\ num_interior_verts_y' = 0 /\ num_verts' = 0
  /\ UNCHANGED <<args, caller_radius>>

Next ==
  \/ RejectSize \/ ClampRadius \/ RejectTabs \/ RejectGrid
  \/ RejectCornerVerts \/ Allocate
  \/ LeftTab \/ LeftTabDone
  \/ ColumnLowerTab \/ ColumnBegin \/ Interior \/ ColumnUpperTab
  \/ ColumnEnd \/ ColumnsDone
  \/ RightTab \/ RightTabDone
  \/ FanLowerLeft \/ FanUpperLeft \/ FanLowerRight \/ FanUpperRight
  \/ FanDone \/ Return
  \/ Recall

Spec == Init /\ [][Next]_vars

(***************************************************************************)
(* Properties                                                              *)
(***************************************************************************)
\* The inputs the specification calls invalid.
InvalidInput ==
  \/ FLess(size_x, F0) \/ FLess(size_y, F0)
  \/ corner_verts < 0
  \/ corner_verts = 0 /\ (num_verts_x < 2 \/ num_verts_y < 2)
  \/ corner_verts > 0 /\ (num_verts_x < 4 \/ num_verts_y < 4)

Finished == pc = "done" /\ ~InvalidInput

\* The closed-form vertex count of the specification.
ClosedFormCount ==
  IF corner_verts = 0 THEN num_verts_x * num_verts_y
  ELSE (num_verts_x - 2) * (num_verts_y - 2) + 4 * corner_verts
         + 2 * (num_verts_x - 2) + 2 * (num_verts_y - 2)

\* C1: for every input that passes validation the returned sequence has the
\* closed-form length, a function of num_verts_x, num_verts_y and
\* corner_verts alone.
C1_LengthIsClosedForm == Finished => Len(returned) = ClosedFormCount

C1_Witness ==
  /\ Finished /\ corner_verts = 2 /\ corner_mask # kAll
  /\ corner_radius # caller_radius
  /\ Len(returned) = 20

\* C2: every invalid input yields an empty sequence, and it is rejected
\* before any vertex is allocated or written.
C2_InvalidYieldsEmpty ==
  InvalidInput =>
    /\ pc \in {"entry", "validate", "done"}
    /\ vertices = <<>> /\ trace = <<>> /\ index = 0 /\ num_verts = 0
    /\ returned = <<>>

C2_Witness ==
  /\ pc = "done" /\ returned = <<>>
  /\ corner_verts > 0 /\ num_verts_x = 3 /\ num_verts_y = 4

\* The 1-based slot of fan vertex j (0: lower left, 1: upper left, 2: lower
\* right, 3: upper right) of fan step ii in a sequence of length n.
FanSlot(n, ii, j) == n - 4 * corner_verts + 4 * ii + j + 1
IsFanSlot(n, k) == corner_verts > 0 /\ k > n - 4 * corner_verts
FanCornerOfSlot(n, k) ==
  LET j == (k - (n - 4 * corner_verts) - 1) % 4
  IN CASE j = 0 -> kBottomLeft
       [] j = 1 -> kTopLeft
       [] j = 2 -> kBottomRight
       [] OTHER -> kTopRight

\* C3: two calls that differ only in corner_mask return sequences of the
\* same length and order that agree on every grid and tab vertex and on the
\* fan vertices of every corner whose bit is the same in both masks; with
\* corner_verts = 0 they are identical.
C3_MaskChangesOnlyItsCorners ==
  (pc = "done" /\ prev.called) =>
    LET n == Len(returned) IN
    /\ n = Len(prev.result)
    /\ trace = prev.order
    /\ \A k \in 1 .. n :
         \/ returned[k] = prev.result[k]
         \/ /\ IsFanSlot(n, k)
            /\ MaskAnd(corner_mask, FanCornerOfSlot(n, k))
                 # MaskAnd(prev.mask, FanCornerOfSlot(n, k))
    /\ corner_verts = 0 => returned = prev.result

C3_Witness ==
  /\ pc = "done" /\ prev.called /\ corner_verts > 0
  /\ prev.mask = kAll /\ corner_mask = kAll - kTopLeft
  /\ returned # prev.result
  /\ \E k \in 1 .. Len(returned) :
       IsFanSlot(Len(returned), k) /\ returned[k] = prev.result[k]

\* The statement the specification's order puts at 0-based position k.
ExpectedTag(k) ==
  IF corner_verts = 0
  THEN <<"interior", k \div num_verts_y, k % num_verts_y>>
  ELSE LET niy == num_verts_y - 2
           nix == num_verts_x - 2
           k2  == k - niy
           k3  == k2 - nix * (niy + 2)
           k4  == k3 - niy
       IN IF k < niy THEN <<"left_tab", 0, k>>
          ELSE IF k2 < nix * (niy + 2)
          THEN LET xx == k2 \div (niy + 2)
                   r  == k2 % (niy + 2)
               IN IF r = 0 THEN <<"lower_tab", xx, 0>>
                  ELSE IF r = niy + 1 THEN <<"upper_tab", xx, 0>>
                  ELSE <<"interior", xx, r - 1>>
          ELSE IF k3 < niy THEN <<"right_tab", 0, k3>>
          ELSE <<"fan", k4 \div 4,
                 CASE k4 % 4 = 0 -> kBottomLeft
                   [] k4 % 4 = 1 -> kTopLeft
                   [] k4 % 4 = 2 -> kBottomRight
                   [] OTHER -> kTopRight>>

\* The index the specification gives interior vertex (xx, yy).
InteriorIndex(xx, yy) ==
  IF corner_verts = 0 THEN xx * num_verts_y + yy
  ELSE (num_verts_y - 2) + xx * ((num_verts_y - 2) + 2) + 1 + yy

\* C4: the vertices are emitted in the order left tab column, then per
\* interior column the bottom tab, the interior vertices with y ascending
\* and the top tab, then the right tab column, then per fan step the
\* corners bottom-left, top-left, bottom-right, top-right; interior vertex
\* (x, y) sits at the index the closed form gives.
C4_EmissionOrder ==
  Finished =>
    /\ Len(trace) = ClosedFormCount
    /\ \A k \in 1 .. Len(trace) : trace[k] = <<ExpectedTag(k - 1)>>
    /\ \A xx \in 0 .. num_interior_verts_x - 1 :
         \A yy \in 0 .. num_interior_verts_y - 1 :
           /\ trace[InteriorIndex(xx, yy) + 1] = <<<<"interior", xx, yy>>>>
           /\ returned[InteriorIndex(xx, yy) + 1] = InteriorVertex(xx, yy)

C4_Witness ==
  /\ Finished /\ corner_verts = 2 /\ num_verts_x = 4 /\ num_verts_y = 4
  /\ trace[4] = <<<<"interior", 0, 0>>>>
  /\ trace[20] = <<<<"fan", 1, kTopRight>>>>

\* C5: the positions span -size/2 .. size/2 in each axis: the smallest and
\* largest x are -size_x/2 and size_x/2, the smallest and largest y are
\* -size_y/2 and size_y/2, also when corner_verts = 0 and corner_radius > 0.
Spans(axis, half) ==
  /\ \A k \in 1 .. Len(returned) :
       /\ FLeq(FNeg(half), returned[k].pos[axis])
       /\ FLeq(returned[k].pos[axis], half)
  /\ \E k \in 1 .. Len(returned) : FEq(returned[k].pos[axis], FNeg(half))
  /\ \E k \in 1 .. Len(returned) : FEq(returned[k].pos[axis], half)

C5_GridSpansSize ==
  Finished => Spans(1, HalfSize(size_x)) /\ Spans(2, HalfSize(size_y))

\* The offsets of fan step ii as the code computes them, by corner.
CornerOffset(corner, ii) ==
  CASE corner = kBottomLeft -> ll_offset(ii)
    [] corner = kTopLeft -> ul_offset(ii)
    [] corner = kBottomRight -> lr_offset(ii)
    [] OTHER -> ur_offset(ii)

\* C6: with corner_verts > 0, every fan vertex of a corner whose bit is not
\* in corner_mask has an offset with max(|offset.x|, |offset.y|) equal to
\* the clamped corner_radius, corner_radius = 0 included.
C6_UnroundedOnSquare ==
  (Finished /\ corner_verts > 0) =>
    \A corner \in Corners : \A ii \in 0 .. corner_verts - 1 :
      MaskAnd(corner_mask, corner) = kNone =>
        LET o == CornerOffset(corner, ii)
        IN FEq(FMax(FAbs(o[1]), FAbs(o[2])), corner_radius)

\* The position of fan vertex j of fan step ii in the returned sequence.
FanPos(ii, j) ==
  LET v == returned[FanSlot(Len(returned), ii, j)]
  IN <<v.pos[1], v.pos[2]>>
Rot90(p) == <<FNeg(p[2]), p[1]>>
SamePoint(p, q) == FEq(p[1], q[1]) /\ FEq(p[2], q[2])

\* C7: for a square quad with every corner enabled and corner_verts > 0,
\* rotating the top-right fan vertex i by 90 degrees about the origin gives
\* the top-left one, rotating that gives the bottom-left one, and rotating
\* that gives the bottom-right one.
C7_FansAreRotations ==
  (Finished /\ corner_verts > 0 /\ FEq(size_x, size_y)
     /\ corner_mask = kAll) =>
    \A ii \in 0 .. corner_verts - 1 :
      /\ SamePoint(Rot90(FanPos(ii, 3)), FanPos(ii, 1))
      /\ SamePoint(Rot90(FanPos(ii, 1)), FanPos(ii, 0))
      /\ SamePoint(Rot90(FanPos(ii, 0)), FanPos(ii, 2))

C7_Witness ==
  /\ Finished /\ corner_verts = 2 /\ size_x = FromInt(3) /\ size_y = size_x
  /\ corner_mask = kAll /\ FLess(F0, corner_radius)
  /\ ~SamePoint(FanPos(0, 3), FanPos(1, 3))

\* C8: for size_x > 0, size_y > 0, corner_radius >= 0 and vertex counts that
\* pass validation, every texture coordinate written has 0 <= u <= 1 and
\* 0 <= v <= 1.
C8_TexCoordsInUnitSquare ==
  (Finished /\ FLess(F0, size_x) /\ FLess(F0, size_y)
     /\ FLeq(F0, caller_radius)) =>
    \A k \in 1 .. Len(returned) : \A c \in 1 .. 2 :
      FLeq(F0, returned[k].uv[c]) /\ FLeq(returned[k].uv[c], F1)

\* C9: the write cursor starts at 0, advances by one per vertex written,
\* is below num_verts at every write and equals num_verts at the return:
\* every slot is written exactly once and the DCHECK_EQ never fails.
C9_CursorFillsArray ==
  /\ ~oob /\ ~dcheck_failed
  /\ index <= Len(vertices)
  /\ Len(trace) = Len(vertices)
  /\ \A k \in 1 .. Len(trace) : Len(trace[k]) = (IF k <= index THEN 1 ELSE 0)
  /\ pc \in {"entry", "validate"} => index = 0
  /\ Finished => index = num_verts /\ Len(returned) = num_verts

C9_Witness ==
  /\ Finished /\ index = 20 /\ num_verts = 20
  /\ \A k \in 1 .. 20 : Len(trace[k]) = 1

\* C10: once validation has passed, num_interior_verts_x >= 2 and
\* num_interior_verts_y >= 2, so the divisors of x_fraction and y_fraction
\* are at least 1 in every loop iteration, rounded corners or not.
C10_FractionDivisorsPositive ==
  pc \in {"left_tab", "columns", "interior", "right_tab"} =>
    /\ num_interior_verts_x >= 2 /\ num_interior_verts_y >= 2
    /\ num_interior_verts_x - 1 >= 1 /\ num_interior_verts_y - 1 >= 1

C10_Witness ==
  /\ pc = "interior" /\ corner_verts > 0
  /\ num_interior_verts_x - 1 = 1 /\ num_interior_verts_y - 1 = 1
  /\ y = 1 /\ y_fraction(y) = F1
=============================================================================
